---- MODULE Spec2Model ----
(***************************************************************************)
(* A model of scripts/scrape_docs.py: the sequential driver main ->        *)
(* ClaudeCodeDocsScraper.scrape_all -> scrape_section, the retry loop of   *)
(* _make_request, the cleaning and extraction passes over the parsed page, *)
(* the writes of the per-section files and of the index, and the exit      *)
(* status main produces.                                                   *)
(***************************************************************************)
EXTENDS Integers, Sequences, FiniteSets, TLC

\* ------------------------------------------------------------------ bounds

\* The most sections a configuration declares.
MaxSections == 2
\* The largest configured scraping.retries.
MaxRetries == 1
\* The most elements a fetched page holds.
MaxNodes == 3
\* The longest scraping.remove_elements list.
MaxRemove == 1
\* The longest scraping.content_selectors list.
MaxContent == 2

\* ------------------------------------------------------------ Python values

\* Python's None, for Optional values held as sequences of length <= 1.
None == <<>>
Some(v) == <<v>>

\* Truth value of an Optional[str]: None and '' are falsy.
Truthy(opt) == opt # None /\ opt[1] # ""

Min(S) == CHOOSE m \in S : \A o \in S : m <= o

\* ------------------------------------------------------------ configuration

\* Section names a configuration may declare, in declaration order.
SectionNames == <<"overview", "quickstart", "hooks", "mcp">>

\* config['sections'] with n sections: each has a name and a filename.
ConfigSections(n) ==
    [k \in 1..n |-> [name |-> SectionNames[k], filename |-> SectionNames[k]]]

\* The selectors a configuration uses; an element matches the selector that
\* equals its label.
Selectors == {"nav", ".missing", ".real"}

\* --------------------------------------------------------------- documents

\* A parsed page: its elements in document order, each with its parent
\* (0: the document itself) and the one selector it matches.
AncestorsOrSelf(nodes, k) ==
    LET RECURSIVE Up(_)
        Up(j) == IF j = 0 THEN {} ELSE {j} \cup Up(nodes[j].parent)
    IN Up(k)

IsDocument(nodes) ==
    \A k \in 1..Len(nodes) :
        /\ nodes[k].parent < k
        /\ k > 1 => \/ nodes[k].parent = 0
                    \/ nodes[k].parent \in AncestorsOrSelf(nodes, k - 1)

Documents(n) ==
    {d \in [1..n -> [parent : 0..(n - 1), label : Selectors]] : IsDocument(d)}

\* BeautifulSoup(response.content, 'html.parser'): every element is in the tree.
BeautifulSoup(nodes) == [nodes |-> nodes, alive |-> 1..Len(nodes)]

\* An element with everything below it.
Subtree(nodes, k) == {j \in 1..Len(nodes) : k \in AncestorsOrSelf(nodes, j)}

\* soup.select(selector): the elements of the tree that match.
Select(soup, selector) ==
    {k \in soup.alive : soup.nodes[k].label = selector}

\* soup.select_one(selector): the first match in document order, or None.
SelectOne(soup, selector) ==
    IF Select(soup, selector) = {} THEN None
    ELSE Some(Min(Select(soup, selector)))

\* element.decompose() for every element of a select() result: each goes
\* with its subtree.
Decompose(soup, elements) ==
    [soup EXCEPT !.alive = @ \ UNION {Subtree(soup.nodes, e) : e \in elements}]

\* _clean_html: for each remove selector in list order, decompose its matches.
RECURSIVE _clean_html(_, _)
_clean_html(soup, remove) ==
    IF remove = <<>> THEN soup
    ELSE _clean_html(Decompose(soup, Select(soup, Head(remove))), Tail(remove))

\* A priority slip: the last selector in list order with a match decides.
RECURSIVE _extract_content_last(_, _)
_extract_content_last(soup, selectors) ==
    IF selectors = <<>> THEN None
    ELSE LET rest == _extract_content_last(soup, Tail(selectors))
         IN IF rest # None THEN rest ELSE SelectOne(soup, Head(selectors))

\* _extract_content: the first selector in list order with a match decides.

RECURSIVE _extract_content(_, _)
_extract_content(soup, selectors) ==
    IF selectors = <<>> THEN None
    ELSE LET content == SelectOne(soup, Head(selectors))
         IN IF content # None THEN content
            ELSE _extract_content(soup, Tail(selectors))

\* The pages the site serves in a run: one whose content survives cleaning,
\* one whose only content element sits inside a removed element, and one
\* with no element at all.
PageReal ==
    <<[parent |-> 0, label |-> "nav"], [parent |-> 0, label |-> ".real"]>>
PageChrome ==
    <<[parent |-> 0, label |-> "nav"], [parent |-> 1, label |-> ".real"]>>
PageEmpty == <<>>
Pages == {PageReal, PageChrome, PageEmpty}

\* Sequences without repetition over S, of length <= n.
DistinctSeqs(S, n) ==
    UNION {{s \in [1..m -> S] : \A a, b \in 1..m : a # b => s[a] # s[b]} : m \in 0..n}

\* ------------------------------------------------------------------- state

VARIABLES
    config_sections,    \* config['sections']
    retries,            \* config['scraping']['retries']
    remove_elements,    \* config['scraping']['remove_elements']
    content_selectors,  \* config['scraping']['content_selectors']
    section_filter,     \* args.section
    files0,             \* the output files as the run found them
    pc,                 \* where the program is
    sections,           \* scrape_all's local list of selected sections
    i,                  \* scrape_all's loop index (enumerate from 1)
    attempt,            \* _make_request's loop variable
    response,           \* what _make_request returned
    soup,               \* the parsed page
    content,            \* what _extract_content returned
    stats,              \* self.stats
    files,              \* the output files and the index file on disk
    req_log,            \* the current _make_request call: each get's outcome, each sleep
    log,                \* the sections begun and ended and the driver's sleeps
    stats_printed,      \* _print_statistics reached its last line
    exception,          \* what ended the run early, if anything
    exited,             \* the process has terminated
    exit_code           \* its exit status

vars == <<config_sections, retries, remove_elements, content_selectors,
          section_filter, files0, pc, sections, i, attempt, response, soup,
          content, stats, files, req_log, log, stats_printed,
          exception, exited, exit_code>>

config == <<config_sections, retries, remove_elements, content_selectors,
            section_filter, files0>>

\* config['output']['index_file'], and every file a run may write.
IndexFile == "index"
FileNames == {SectionNames[k] : k \in 1..Len(SectionNames)} \cup {IndexFile}

NoSoup == BeautifulSoup(<<>>)

\* The state main starts from, given the configuration file and arguments.
Start ==
    /\ pc = "main"
    /\ sections = <<>>
    /\ i = 0
    /\ attempt = 0
    /\ response = None
    /\ soup = NoSoup
    /\ content = None
    /\ stats = [total_sections |-> 0, successful_scrapes |-> 0, failed_scrapes |-> 0]
    /\ files = files0
    /\ req_log = <<>>
    /\ log = <<>>
    /\ stats_printed = FALSE
    /\ exception = "none"
    /\ exited = FALSE
    /\ exit_code = 0

Init ==
    /\ \E n \in 0..MaxSections : config_sections = ConfigSections(n)
    /\ retries \in 0..MaxRetries
    /\ remove_elements = <<"nav">>
    /\ content_selectors = <<".missing", ".real">>
    /\ section_filter \in
         {None, Some(""), Some("nosuch")}
           \cup {Some(SectionNames[k]) : k \in 1..MaxSections}
    /\ \E old \in {"absent", "old"} : files0 = [f \in FileNames |-> old]
    /\ Start

\* ----------------------------------------------------------------- actions

Section == sections[i]

\* The process ends with this status; exc is what main caught (or "none").
Exit(code, exc) ==
    /\ exited' = TRUE
    /\ exit_code' = code
    /\ exception' = exc

Running == UNCHANGED <<exited, exit_code, exception>>

Event(ev, sec, out) == [ev |-> ev, sec |-> sec, out |-> out]

\* An index written after every run, filtered or not.
AfterLoopAlwaysIndex == "create_index"

\* Where scrape_all goes when its loop is over: create_index in a run
\* without a filter, _print_statistics otherwise.
AfterLoop == IF ~Truthy(section_filter) THEN "create_index" ELSE "print_statistics"

\* The counter a section's outcome adds to.
Counter(outcome) ==
    IF outcome = "success" THEN "successful_scrapes" ELSE "failed_scrapes"

\* A failed section that ends the loop instead of letting it go on.
FinishSectionBreak(outcome) ==
    /\ stats' = [stats EXCEPT ![Counter(outcome)] = @ + 1]
    /\ log' = Append(log, Event("end", Section.name, outcome))
    /\ pc' = IF i < Len(sections) /\ outcome = "success"
             THEN "section_sleep" ELSE AfterLoop

\* scrape_section returns: the outcome is counted, and scrape_all either
\* sleeps before the next section or leaves the loop.
FinishSection(outcome) ==
    /\ stats' = [stats EXCEPT ![Counter(outcome)] = @ + 1]
    /\ log' = Append(log, Event("end", Section.name, outcome))
    /\ pc' = IF i < Len(sections) THEN "section_sleep" ELSE AfterLoop

\* main: ClaudeCodeDocsScraper(args.config) loads the configuration or exits 1.
main_load_config ==
    /\ ~exited /\ pc = "main"
    /\ \/ pc' = "scrape_all" /\ Running
       \/ \E e \in {"FileNotFoundError", "YAMLError"} : Exit(1, e) /\ pc' = pc
    /\ UNCHANGED <<config, sections, i, attempt, response, soup, content, stats,
                   files, req_log, log, stats_printed>>

\* scrape_all up to its loop: select the sections, return if the filter
\* names none, set total_sections.
scrape_all_select ==
    /\ ~exited /\ pc = "scrape_all"
    /\ LET Named(s) == s.name = section_filter[1]
           selected == IF Truthy(section_filter)
                       THEN SelectSeq(config_sections, Named)
                       ELSE config_sections
       IN /\ sections' = selected
          /\ IF Truthy(section_filter) /\ selected = <<>>
             THEN /\ pc' = "done"
                  /\ Exit(0, "none")
                  /\ UNCHANGED <<stats, i>>
             ELSE /\ stats' = [stats EXCEPT !.total_sections = Len(selected)]
                  /\ i' = IF selected = <<>> THEN 0 ELSE 1
                  /\ pc' = IF selected = <<>> THEN AfterLoop ELSE "scrape_section"
                  /\ Running
    /\ UNCHANGED <<config, attempt, response, soup, content, files, req_log, log,
                   stats_printed>>

\* One iteration starts: scrape_section(section) is called and calls _make_request.
scrape_section_begin ==
    /\ ~exited /\ pc = "scrape_section"
    /\ log' = Append(log, Event("begin", Section.name, "-"))
    /\ attempt' = 0
    /\ req_log' = <<>>
    /\ response' = None
    /\ soup' = NoSoup
    /\ content' = None
    /\ pc' = "request"
    /\ Running
    /\ UNCHANGED <<config, sections, i, stats, files, stats_printed>>

\* An off-by-one in the retry loop: the loop gives up one attempt early.
_make_request_get_early ==
    /\ ~exited /\ pc = "request"
    /\ \/ \E page \in Pages :
             /\ req_log' = Append(req_log, "ok")
             /\ response' = Some(page)
             /\ pc' = "returned"
       \/ /\ req_log' = Append(req_log, "fail")
          /\ response' = None
          /\ pc' = IF attempt + 1 >= retries THEN "returned" ELSE "retry_sleep"
    /\ Running
    /\ UNCHANGED <<config, sections, i, attempt, soup, content, stats, files, log,
                   stats_printed>>

\* _make_request, one attempt: the response is returned, or the request
\* raises RequestException and the loop sleeps or gives up.
_make_request_get ==
    /\ ~exited /\ pc = "request"
    /\ \/ \E page \in Pages :
             /\ req_log' = Append(req_log, "ok")
             /\ response' = Some(page)
             /\ pc' = "returned"
       \/ /\ req_log' = Append(req_log, "fail")
          /\ response' = None
          /\ pc' = IF attempt = retries THEN "returned" ELSE "retry_sleep"
    /\ Running
    /\ UNCHANGED <<config, sections, i, attempt, soup, content, stats, files, log,
                   stats_printed>>

\* _make_request: time.sleep(delay_between_requests), then the next attempt.
_make_request_sleep ==
    /\ ~exited /\ pc = "retry_sleep"
    /\ req_log' = Append(req_log, "sleep")
    /\ attempt' = attempt + 1
    /\ pc' = "request"
    /\ Running
    /\ UNCHANGED <<config, sections, i, response, soup, content, stats, files, log,
                   stats_printed>>

\* scrape_section after _make_request: no response fails the section,
\* a response is parsed.
scrape_section_parse ==
    /\ ~exited /\ pc = "returned"
    /\ IF response = None
       THEN FinishSection("fetch_failed") /\ UNCHANGED soup
       ELSE /\ soup' = BeautifulSoup(response[1])
            /\ pc' = "clean"
            /\ UNCHANGED <<stats, log>>
    /\ Running
    /\ UNCHANGED <<config, sections, i, attempt, response, content, files, req_log,
                   stats_printed>>

\* scrape_section: soup = self._clean_html(soup).
scrape_section_clean ==
    /\ ~exited /\ pc = "clean"
    /\ soup' = _clean_html(soup, remove_elements)
    /\ pc' = "extract"
    /\ Running
    /\ UNCHANGED <<config, sections, i, attempt, response, content, stats, files,
                   req_log, log, stats_printed>>

\* scrape_section: content = self._extract_content(soup); None fails the section.
scrape_section_extract ==
    /\ ~exited /\ pc = "extract"
    /\ content' = _extract_content(soup, content_selectors)
    /\ IF content' = None
       THEN FinishSection("no_content")
       ELSE pc' = "convert" /\ UNCHANGED <<stats, log>>
    /\ Running
    /\ UNCHANGED <<config, sections, i, attempt, response, soup, files, req_log,
                   stats_printed>>

\* A conversion failure that returns False without counting the section.
scrape_section_convert_uncounted ==
    /\ ~exited /\ pc = "convert"
    /\ \/ pc' = "open" /\ UNCHANGED <<stats, log>>
       \/ /\ log' = Append(log, Event("end", Section.name, "convert_failed"))
          /\ pc' = IF i < Len(sections) THEN "section_sleep" ELSE AfterLoop
          /\ UNCHANGED stats
    /\ Running
    /\ UNCHANGED <<config, sections, i, attempt, response, soup, content, files,
                   req_log, stats_printed>>

\* scrape_section: _convert_to_markdown returns the document or raises.
scrape_section_convert ==
    /\ ~exited /\ pc = "convert"
    /\ \/ pc' = "open" /\ UNCHANGED <<stats, log>>
       \/ FinishSection("convert_failed")
    /\ Running
    /\ UNCHANGED <<config, sections, i, attempt, response, soup, content, files,
                   req_log, stats_printed>>

\* scrape_section: open(output_file, 'w') creates or truncates the file, or raises.
scrape_section_open ==
    /\ ~exited /\ pc = "open"
    /\ \/ /\ files' = [files EXCEPT ![Section.filename] = "empty"]
          /\ pc' = "write"
          /\ UNCHANGED <<stats, log>>
       \/ FinishSection("open_failed") /\ UNCHANGED files
    /\ Running
    /\ UNCHANGED <<config, sections, i, attempt, response, soup, content, req_log,
                   stats_printed>>

\* scrape_section: f.write(markdown) and the close of the with block: the
\* whole document is on disk, or the write raised with none or part of it.
scrape_section_write ==
    /\ ~exited /\ pc = "write"
    /\ \/ /\ files' = [files EXCEPT ![Section.filename] = "complete"]
          /\ FinishSection("success")
       \/ \E left \in {"empty", "partial"} :
             /\ files' = [files EXCEPT ![Section.filename] = left]
             /\ FinishSection("write_failed")
    /\ Running
    /\ UNCHANGED <<config, sections, i, attempt, response, soup, content, req_log,
                   stats_printed>>

\* A delay taken only after a section that succeeded.
scrape_all_sleep_after_success ==
    /\ ~exited /\ pc = "section_sleep"
    /\ log' = IF log[Len(log)].out = "success"
              THEN Append(log, Event("sleep", Section.name, "-")) ELSE log
    /\ i' = i + 1
    /\ pc' = "scrape_section"
    /\ Running
    /\ UNCHANGED <<config, sections, attempt, response, soup, content, stats, files,
                   req_log, stats_printed>>

\* scrape_all: time.sleep(delay_between_requests) when i < len(sections),
\* then the next iteration.
scrape_all_sleep ==
    /\ ~exited /\ pc = "section_sleep"
    /\ log' = Append(log, Event("sleep", Section.name, "-"))
    /\ i' = i + 1
    /\ pc' = "scrape_section"
    /\ Running
    /\ UNCHANGED <<config, sections, attempt, response, soup, content, stats, files,
                   req_log, stats_printed>>

\* create_index: open(index_file, 'w'); an OSError reaches main, which exits 1.
create_index_open ==
    /\ ~exited /\ pc = "create_index"
    /\ \/ /\ files' = [files EXCEPT ![IndexFile] = "empty"]
          /\ pc' = "index_write"
          /\ Running
       \/ Exit(1, "OSError") /\ UNCHANGED <<files, pc>>
    /\ UNCHANGED <<config, sections, i, attempt, response, soup, content, stats,
                   req_log, log, stats_printed>>

\* create_index: f.write(...) and the close of the with block.
create_index_write ==
    /\ ~exited /\ pc = "index_write"
    /\ \/ /\ files' = [files EXCEPT ![IndexFile] = "complete"]
          /\ pc' = "print_statistics"
          /\ Running
       \/ \E left \in {"empty", "partial"} :
             /\ files' = [files EXCEPT ![IndexFile] = left]
             /\ Exit(1, "OSError")
             /\ pc' = pc
    /\ UNCHANGED <<config, sections, i, attempt, response, soup, content, stats,
                   req_log, log, stats_printed>>

\* _print_statistics, then scrape_all and main return: the success rate
\* divides by total_sections, and a ZeroDivisionError reaches main.
_print_statistics ==
    /\ ~exited /\ pc = "print_statistics"
    /\ IF stats.total_sections = 0
       THEN Exit(1, "ZeroDivisionError") /\ UNCHANGED <<pc, stats_printed>>
       ELSE stats_printed' = TRUE /\ pc' = "done" /\ Exit(0, "none")
    /\ UNCHANGED <<config, sections, i, attempt, response, soup, content, stats,
                   files, req_log, log>>

\* The file a KeyboardInterrupt finds open for writing, if any.
OpenFile ==
    IF pc = "write" THEN {Section.filename}
    ELSE IF pc = "index_write" THEN {IndexFile} ELSE {}

\* main: a KeyboardInterrupt anywhere inside the try block exits 1; a file
\* open for writing is closed with none or part of its text.
KeyboardInterrupt ==
    /\ ~exited
    /\ Exit(1, "KeyboardInterrupt")
    /\ \E left \in {"empty", "partial"} :
          files' = [f \in FileNames |-> IF f \in OpenFile THEN left ELSE files[f]]
    /\ UNCHANGED <<config, pc, sections, i, attempt, response, soup, content, stats,
                   req_log, log, stats_printed>>

Next ==
    \/ main_load_config
    \/ scrape_all_select
    \/ scrape_section_begin
    \/ _make_request_get
    \/ _make_request_sleep
    \/ scrape_section_parse
    \/ scrape_section_clean
    \/ scrape_section_extract
    \/ scrape_section_convert
    \/ scrape_section_open
    \/ scrape_section_write
    \/ scrape_all_sleep
    \/ create_index_open
    \/ create_index_write
    \/ _print_statistics
    \/ KeyboardInterrupt

Spec == Init /\ [][Next]_vars

\* ------------------------------------------- extraction on arbitrary pages

AllDocuments == UNION {Documents(n) : n \in 0..MaxNodes}

\* scrape_section about to parse the response of its one section, for every
\* small page and every small pair of selector lists.
InitExtract ==
    /\ config_sections = ConfigSections(1)
    /\ retries = 0
    /\ remove_elements \in DistinctSeqs(Selectors, MaxRemove)
    /\ content_selectors \in DistinctSeqs(Selectors, MaxContent)
    /\ section_filter = None
    /\ files0 = [f \in FileNames |-> "absent"]
    /\ pc = "returned"
    /\ sections = config_sections
    /\ i = 1
    /\ attempt = 0
    /\ \E d \in AllDocuments : response = Some(d)
    /\ soup = NoSoup
    /\ content = None
    /\ stats = [total_sections |-> 1, successful_scrapes |-> 0, failed_scrapes |-> 0]
    /\ files = files0
    /\ req_log = <<"ok">>
    /\ log = <<Event("begin", "overview", "-")>>
    /\ stats_printed = FALSE
    /\ exception = "none"
    /\ exited = FALSE
    /\ exit_code = 0

NextExtract ==
    \/ scrape_section_parse
    \/ scrape_section_clean
    \/ scrape_section_extract

SpecExtract == InitExtract /\ [][NextExtract]_vars

\* ------------------------------------------------------------------ claims

\* What the log says.
Events(ev) == {p \in 1..Len(log) : log[p].ev = ev}
EndsOf(name) == {p \in Events("end") : log[p].sec = name}
Successes == {p \in Events("end") : log[p].out = "success"}
Failures == {p \in Events("end") : log[p].out # "success"}

\* A section of that name is declared in the configuration.
Declared(name) == \E k \in 1..Len(config_sections) : config_sections[k].name = name

\* The sections a run selects: the declared one the filter names, or all.
Selected ==
    IF section_filter = None \/ section_filter = Some("") THEN config_sections
    ELSE IF Declared(section_filter[1])
         THEN <<CHOOSE s \in {config_sections[k] : k \in 1..Len(config_sections)} :
                    s.name = section_filter[1]>>
         ELSE <<>>

\* scrape_all's loop over the selected sections has run to its end.
LoopFinished ==
    \/ pc \in {"create_index", "index_write", "print_statistics"}
    \/ pc = "done" /\ stats_printed

\* C1: once the loop of scrape_all has finished, successful_scrapes +
\* failed_scrapes = total_sections = the number of selected sections, and
\* every selected section was counted exactly once, as the success or the
\* failure it ended with, whatever stage it stopped at.
C1_CountedOnce ==
    LoopFinished =>
        /\ stats.successful_scrapes + stats.failed_scrapes = stats.total_sections
        /\ stats.total_sections = Len(Selected)
        /\ \A k \in 1..Len(Selected) : Cardinality(EndsOf(Selected[k].name)) = 1
        /\ stats.successful_scrapes = Cardinality(Successes)
        /\ stats.failed_scrapes = Cardinality(Failures)

\* A finished run of two sections, one a success and one a failed conversion.
C1_Witness ==
    /\ LoopFinished
    /\ stats.total_sections = 2
    /\ stats.successful_scrapes = 1
    /\ \E p \in Failures : log[p].out = "convert_failed"

\* The gets and the sleeps of a _make_request call.
Gets == {p \in 1..Len(req_log) : req_log[p] \in {"ok", "fail"}}
Sleeps == {p \in 1..Len(req_log) : req_log[p] = "sleep"}

\* C2: when _make_request returns, its attempts and sleeps alternate,
\* starting and ending with an attempt; every attempt but the last failed;
\* it returns None exactly when the last attempt failed too, and then it made
\* retries + 1 attempts and slept retries times; it returns the response of
\* its k-th attempt after exactly k attempts, k <= retries + 1.
C2_RetryBound ==
    pc = "returned" =>
        /\ Len(req_log) = 2 * Cardinality(Gets) - 1
        /\ \A p \in 1..Len(req_log) :
              /\ (p % 2 = 0) => req_log[p] = "sleep"
              /\ (p % 2 = 1 /\ p < Len(req_log)) => req_log[p] = "fail"
        /\ req_log[Len(req_log)] \in {"ok", "fail"}
        /\ response = None <=> req_log[Len(req_log)] = "fail"
        /\ response = None =>
              Cardinality(Gets) = retries + 1 /\ Cardinality(Sleeps) = retries
        /\ response # None =>
              /\ Cardinality(Gets) <= retries + 1
              /\ Cardinality(Sleeps) = Cardinality(Gets) - 1
              /\ response[1] \in Pages

\* A fetch that failed on every attempt, with at least one retry configured.
C2_Witness ==
    /\ pc = "returned"
    /\ response = None
    /\ retries >= 1
    /\ Cardinality(Sleeps) = retries

\* --section was given (any value, '' too).
FilterGiven == section_filter # None

\* The run ended on a configuration that did not load.
ConfigFailed == exception \in {"FileNotFoundError", "YAMLError"}

\* C3: a run started with --section X, X no declared section, processes no
\* section and ends with exit status 1.
C3_UnknownSectionExitsOne ==
    (exited /\ Truthy(section_filter) /\ ~Declared(section_filter[1])
       /\ ~ConfigFailed /\ exception # "KeyboardInterrupt")
    => (exit_code = 1 /\ log = <<>>)

\* C4: a run filtered to a declared section X begins and ends no section
\* but X, X at most once and exactly once when the run completes, and leaves
\* the index file as it found it; the index file is touched only in a run
\* without a filter, and only after every declared section has ended.
C4_FilterAndIndex ==
    /\ (Truthy(section_filter) /\ Declared(section_filter[1])) =>
          /\ \A p \in 1..Len(log) : log[p].sec = section_filter[1]
          /\ Cardinality(Events("begin")) <= 1
          /\ pc = "done" => Cardinality(Events("begin")) = 1
                            /\ Cardinality(EndsOf(section_filter[1])) = 1
          /\ files[IndexFile] = files0[IndexFile]
    /\ files[IndexFile] # files0[IndexFile] =>
          /\ ~Truthy(section_filter)
          /\ \A k \in 1..Len(config_sections) :
                Cardinality(EndsOf(config_sections[k].name)) = 1

\* A completed run filtered to the second of two declared sections.
C4_Witness ==
    /\ pc = "done" /\ stats_printed
    /\ Len(config_sections) = 2
    /\ section_filter = Some(config_sections[2].name)
    /\ Cardinality(Events("end")) = 1

\* C5: a run whose configuration loads, whose requested section (if any)
\* is declared and that is not interrupted prints its statistics and exits 0,
\* whatever the number of sections and their outcomes. (Read in the claim's
\* favour: a run whose index file cannot be written is left aside.)
C5_NormalRunExitsZero ==
    (exited /\ ~ConfigFailed /\ exception \notin {"KeyboardInterrupt", "OSError"}
       /\ (FilterGiven => Declared(section_filter[1])))
    => (exit_code = 0 /\ stats_printed)

IsBegin(e) == e.ev = "begin"
IsEnd(e) == e.ev = "end"

C7_AllOrNothing ==
    \A k \in 1..Len(sections) : \A p \in EndsOf(sections[k].name) :
        \/ log[p].out = "success" /\ files[sections[k].filename] = "complete"
        \/ log[p].out # "success"
             /\ files[sections[k].filename] = files0[sections[k].filename]

\* C8: an interrupted run has ended with a non-zero status, its index file
\* is neither emptied nor partly written, and the file of every section that
\* had succeeded holds the whole document.
C8_InterruptClean ==
    exception = "KeyboardInterrupt" =>
        /\ exited /\ exit_code # 0
        /\ files[IndexFile] \notin {"empty", "partial"}
        /\ \A k \in 1..Len(sections) : \A p \in EndsOf(sections[k].name) :
              log[p].out = "success" => files[sections[k].filename] = "complete"

\* The elements of the page, and those no remove selector takes away: an
\* element goes when it or one of its ancestors matches a remove selector.
Page == soup.nodes
Range(seq) == {seq[p] : p \in 1..Len(seq)}
Survives(k) ==
    \A a \in AncestorsOrSelf(Page, k) : Page[a].label \notin Range(remove_elements)
Matches(selector) ==
    {k \in 1..Len(Page) : Survives(k) /\ Page[k].label = selector}

\* scrape_section is past the extraction.
Extracted == pc \notin {"returned", "clean", "extract"}

\* C9: after extraction the tree holds exactly the surviving elements; the
\* result is None exactly when no content selector matches a surviving
\* element, and the section then failed with no content; otherwise it is the
\* first surviving match, in document order, of the first selector in list
\* order that has one, and its fragment holds surviving elements only.
C9_SelectorPriority ==
    Extracted =>
        /\ soup.alive = {k \in 1..Len(Page) : Survives(k)}
        /\ content = None <=>
              \A p \in 1..Len(content_selectors) : Matches(content_selectors[p]) = {}
        /\ content = None <=> (Failures # {} /\ \A p \in Failures : log[p].out = "no_content")
        /\ content # None =>
              \E p \in 1..Len(content_selectors) :
                  /\ Matches(content_selectors[p]) # {}
                  /\ \A q \in 1..(p - 1) : Matches(content_selectors[q]) = {}
                  /\ content[1] = Min(Matches(content_selectors[p]))
        /\ content # None =>
              \A k \in Subtree(Page, content[1]) \cap soup.alive : Survives(k)

\* The second selector decides: the first matches only an element that
\* cleaning removed, the second matches two elements, and the first of them
\* is returned.
C9_Witness ==
    /\ Extracted
    /\ Len(content_selectors) = 2
    /\ \E k \in 1..Len(Page) : Page[k].label = content_selectors[1] /\ ~Survives(k)
    /\ Matches(content_selectors[1]) = {}
    /\ Cardinality(Matches(content_selectors[2])) = 2
    /\ content = Some(Min(Matches(content_selectors[2])))

\* C10: the log of a run is a prefix of begin, end, sleep for the first
\* selected section, the same for the second, ..., and begin, end for the
\* last: one sleep after each section but the last, after that section has
\* ended and before the next begins, whatever its outcome; requests are made
\* only between a section's begin and its end; a run of n >= 1 sections
\* whose loop has finished has slept n - 1 times.
C10_SleepBetweenSections ==
    /\ \A p \in 1..Len(log) :
          LET k == ((p - 1) \div 3) + 1
              r == (p - 1) % 3
          IN /\ k <= Len(Selected)
             /\ log[p].sec = Selected[k].name
             /\ log[p].ev = <<"begin", "end", "sleep">>[r + 1]
             /\ ~(k = Len(Selected) /\ r = 2)
    /\ pc \in {"request", "retry_sleep", "returned"} =>
          (log # <<>> /\ log[Len(log)].ev = "begin")
    /\ (LoopFinished /\ Len(Selected) >= 1) =>
          Cardinality(Events("sleep")) = Len(Selected) - 1

\* A finished run of two sections that slept once, after a first section
\* that failed.
C10_Witness ==
    /\ LoopFinished
    /\ Len(Selected) = 2
    /\ Cardinality(Events("sleep")) = 1
    /\ log[2].out # "success"

====
